---- MODULE Spec2Model ----
(***************************************************************************)
(* Model of core/primitives/src/challenge.rs: the PartialState witness,    *)
(* the three ChallengeBody variants, their borsh wire form, and the        *)
(* Challenge envelope (produce / init).                                    *)
(*                                                                         *)
(* Bytes are naturals.  A Vec<u8> is a sequence of bytes.  The content     *)
(* hash and the signature scheme are symbolic: a digest is its marked      *)
(* preimage and a signature is the signing key followed by the signed      *)
(* message, so both are collision-free and unforgeable by construction.    *)
(***************************************************************************)
EXTENDS Naturals, Sequences, FiniteSets, TLC

VARIABLES
    in_body,    \* the `body` argument of the Challenge::produce call
    in_signer,  \* the `signer` argument of the Challenge::produce call
    produced,   \* the value Challenge::produce returned
    chal,       \* the Challenge value currently held
    src,        \* the Challenge value that was last serialized
    wire,       \* the serialized Challenge in flight
    flipped,    \* whether the adversary has flipped a bit in flight
    intact,     \* whether the wire is as it was serialized
    err,        \* whether the last deserialization failed
    op,         \* the last operation performed
    ps,         \* a PartialState value
    ps2,        \* a second PartialState value
    len_res,    \* result of ps.len()
    fmt_res,    \* result of format!("{:?}", ps)
    eq_res      \* result of ps == ps2

vars == <<in_body, in_signer, produced, chal, src, wire, flipped, intact, err, op,
          ps, ps2, len_res, fmt_res, eq_res>>

chVars == <<in_body, in_signer, produced, chal, src, wire, flipped, intact, err>>
psVars == <<ps, ps2, len_res, fmt_res, eq_res>>

----------------------------------------------------------------------------
(* Bounds of the model *)

\* Longest raw header an input holds.
MaxLen == 1
\* Most trie values an input PartialState holds.
MaxVals == 2

\* Byte values the inputs are built from.
InputBytes == {0, 1}

\* The bits of a wire byte an adversary may flip (as place values).
FlipBits == {1, 2}

----------------------------------------------------------------------------
(* Input domains *)

RECURSIVE SeqsUpTo(_, _)
SeqsUpTo(S, n) ==
    IF n = 0 THEN {<<>>}
    ELSE LET shorter == SeqsUpTo(S, n - 1)
         IN  shorter \cup {Append(s, e) : s \in shorter, e \in S}

\* Vec<u8>
Headers == SeqsUpTo(InputBytes, MaxLen)

\* TrieValue = Arc<[u8]>: an empty, a one-byte and a two-byte blob
TrieValue == {<<>>, <<1>>, <<0, 1>>}

\* enum PartialState { TrieValues(Vec<TrieValue>) }
PartialState == [TrieValues : SeqsUpTo(TrieValue, MaxVals)]

\* Consumed types (MerklePath, ShardChunk, EncodedShardChunk,
\* ShardChunkHeader) are opaque: a one-byte token stands for a value.
Opaque == InputBytes

\* enum MaybeEncodedShardChunk { Encoded(EncodedShardChunk), Decoded(ShardChunk) }
MaybeEncodedShardChunk == [variant : {"Encoded", "Decoded"}, chunk : Opaque]

\* struct BlockDoubleSign
BlockDoubleSign ==
    [kind : {"BlockDoubleSign"},
     left_block_header : Headers, right_block_header : Headers]

\* struct ChunkProofs
ChunkProofs ==
    [kind : {"ChunkProofs"},
     block_header : Headers, merkle_proof : Opaque,
     chunk : MaybeEncodedShardChunk]

\* struct ChunkState (the opaque collaborators are held at one value each)
ChunkState ==
    [kind : {"ChunkState"},
     prev_block_header : Headers, block_header : {<<1>>},
     prev_merkle_proof : {0}, prev_chunk : {0}, merkle_proof : {0},
     chunk_header : {0}, partial_state : PartialState]

\* enum ChallengeBody
ChallengeBody == BlockDoubleSign \cup ChunkProofs \cup ChunkState

\* ValidatorSigner: an account id (its UTF-8 bytes) and a signing key.
ValidatorSigner == {[validator_id |-> <<97>>, key |-> 11],
                    [validator_id |-> <<98>>, key |-> 12]}

\* The key registered for an account id.
RegisteredKey(account_id) ==
    IF \E s \in ValidatorSigner : s.validator_id = account_id
    THEN (CHOOSE s \in ValidatorSigner : s.validator_id = account_id).key
    ELSE 0

NoChallenge == [body |-> <<>>, account_id |-> <<>>, signature |-> <<>>, hash |-> <<>>]
NoBody == [kind |-> "none"]

----------------------------------------------------------------------------
(* borsh serialization *)

\* u32, little endian
U32LE(n) == <<n % 256, (n \div 256) % 256, (n \div 65536) % 256, (n \div 16777216) % 256>>

\* Vec<u8>, Arc<[u8]>, String: a u32 length and the bytes
SerVecU8(v) == U32LE(Len(v)) \o v

RECURSIVE SerEach(_)
SerEach(vs) == IF vs = <<>> THEN <<>> ELSE SerVecU8(Head(vs)) \o SerEach(Tail(vs))

\* the values with later repeats of a value dropped
RECURSIVE Unique(_, _)
Unique(vs, seen) ==
    IF vs = <<>> THEN <<>>
    ELSE IF Head(vs) \in seen THEN Unique(Tail(vs), seen)
    ELSE <<Head(vs)>> \o Unique(Tail(vs), seen \cup {Head(vs)})

\* Variant: the values are written as a set of unique trie values
SerPartialState_dedup(p) ==
    <<0>> \o U32LE(Len(Unique(p.TrieValues, {}))) \o SerEach(Unique(p.TrieValues, {}))

\* PartialState: the variant index, then Vec<TrieValue>
SerPartialState(p) == <<0>> \o U32LE(Len(p.TrieValues)) \o SerEach(p.TrieValues)

\* opaque collaborator: its one-byte token
SerOpaque(o) == <<o>>

SerMaybeEncodedShardChunk(c) ==
    <<IF c.variant = "Encoded" THEN 0 ELSE 1>> \o SerOpaque(c.chunk)

\* Variant: the two headers are written back to back with no length
SerBlockDoubleSign_unframed(b) == b.left_block_header \o b.right_block_header

SerBlockDoubleSign(b) ==
    SerVecU8(b.left_block_header) \o SerVecU8(b.right_block_header)

SerChunkProofs(b) ==
    SerVecU8(b.block_header) \o SerOpaque(b.merkle_proof)
        \o SerMaybeEncodedShardChunk(b.chunk)

SerChunkState(b) ==
    SerVecU8(b.prev_block_header) \o SerVecU8(b.block_header)
        \o SerOpaque(b.prev_merkle_proof) \o SerOpaque(b.prev_chunk)
        \o SerOpaque(b.merkle_proof) \o SerOpaque(b.chunk_header)
        \o SerPartialState(b.partial_state)

\* ChallengeBody: the variant index, then the variant
SerChallengeBody(b) ==
    CASE b.kind = "BlockDoubleSign" -> <<0>> \o SerBlockDoubleSign(b)
      [] b.kind = "ChunkProofs"     -> <<1>> \o SerChunkProofs(b)
      [] b.kind = "ChunkState"      -> <<2>> \o SerChunkState(b)

\* Variant: `hash` is not skipped
SerChallenge_with_hash(c) ==
    SerChallengeBody(c.body) \o SerVecU8(c.account_id) \o c.signature \o c.hash

\* Challenge: body, account_id, signature; `hash` is #[borsh(skip)]
SerChallenge(c) ==
    SerChallengeBody(c.body) \o SerVecU8(c.account_id) \o c.signature

----------------------------------------------------------------------------
(* borsh deserialization: a reader takes bytes and either fails or returns *)
(* the value read and the bytes that follow it                             *)

Fail == [ok |-> FALSE]
Read(v, r) == [ok |-> TRUE, val |-> v, rest |-> r]

\* `let v = r?; K(v)`: the failure of a read is the failure of the whole
AndThen(r, K(_)) == CHOOSE out \in {IF v.ok THEN K(v) ELSE Fail : v \in {r}} : TRUE

DeU8(bs) == IF Len(bs) >= 1 THEN Read(bs[1], Tail(bs)) ELSE Fail

\* u32, little endian.  A value of 2^31 or more reads as 2^31 - 1: either is
\* more than the bytes that can follow it.
DeU32(bs) ==
    IF Len(bs) >= 4
    THEN Read(IF bs[4] >= 128 THEN 2147483647
              ELSE bs[1] + 256 * bs[2] + 65536 * bs[3] + 16777216 * bs[4],
              SubSeq(bs, 5, Len(bs)))
    ELSE Fail

DeVecU8(bs) ==
    AndThen(DeU32(bs), LAMBDA n :
        IF Len(n.rest) < n.val THEN Fail
        ELSE Read(SubSeq(n.rest, 1, n.val), SubSeq(n.rest, n.val + 1, Len(n.rest))))

\* `count` trie values in a row
RECURSIVE DeEach(_, _)
DeEach(bs, count) ==
    IF count = 0 THEN Read(<<>>, bs)
    ELSE AndThen(DeVecU8(bs), LAMBDA v :
         AndThen(DeEach(v.rest, count - 1), LAMBDA more :
             Read(<<v.val>> \o more.val, more.rest)))

DePartialState(bs) ==
    AndThen(DeU8(bs), LAMBDA tag :
        IF tag.val # 0 THEN Fail
        ELSE AndThen(DeU32(tag.rest), LAMBDA n :
             IF n.val > Len(n.rest) THEN Fail
             ELSE AndThen(DeEach(n.rest, n.val), LAMBDA vs :
                      Read([TrieValues |-> vs.val], vs.rest))))

DeOpaque(bs) == DeU8(bs)

DeMaybeEncodedShardChunk(bs) ==
    AndThen(DeU8(bs), LAMBDA tag :
        IF tag.val > 1 THEN Fail
        ELSE AndThen(DeOpaque(tag.rest), LAMBDA c :
                 Read([variant |-> IF tag.val = 0 THEN "Encoded" ELSE "Decoded",
                       chunk |-> c.val], c.rest)))

\* Variant: a decoder that refuses an empty header
DeBlockDoubleSign_nonempty(bs) ==
    AndThen(DeVecU8(bs), LAMBDA l :
    AndThen(DeVecU8(l.rest), LAMBDA r :
        IF l.val = <<>> \/ r.val = <<>> THEN Fail
        ELSE Read([kind |-> "BlockDoubleSign", left_block_header |-> l.val,
                   right_block_header |-> r.val], r.rest)))

DeBlockDoubleSign(bs) ==
    AndThen(DeVecU8(bs), LAMBDA l :
    AndThen(DeVecU8(l.rest), LAMBDA r :
        Read([kind |-> "BlockDoubleSign", left_block_header |-> l.val,
              right_block_header |-> r.val], r.rest)))

DeChunkProofs(bs) ==
    AndThen(DeVecU8(bs), LAMBDA h :
    AndThen(DeOpaque(h.rest), LAMBDA m :
    AndThen(DeMaybeEncodedShardChunk(m.rest), LAMBDA c :
        Read([kind |-> "ChunkProofs", block_header |-> h.val,
              merkle_proof |-> m.val, chunk |-> c.val], c.rest))))

DeChunkState(bs) ==
    AndThen(DeVecU8(bs), LAMBDA ph :
    AndThen(DeVecU8(ph.rest), LAMBDA h :
    AndThen(DeOpaque(h.rest), LAMBDA pm :
    AndThen(DeOpaque(pm.rest), LAMBDA pc :
    AndThen(DeOpaque(pc.rest), LAMBDA m :
    AndThen(DeOpaque(m.rest), LAMBDA ch :
    AndThen(DePartialState(ch.rest), LAMBDA p :
        Read([kind |-> "ChunkState", prev_block_header |-> ph.val,
              block_header |-> h.val, prev_merkle_proof |-> pm.val,
              prev_chunk |-> pc.val, merkle_proof |-> m.val,
              chunk_header |-> ch.val, partial_state |-> p.val], p.rest))))))))

DeChallengeBody(bs) ==
    AndThen(DeU8(bs), LAMBDA tag :
        CASE tag.val = 0 -> DeBlockDoubleSign(tag.rest)
          [] tag.val = 1 -> DeChunkProofs(tag.rest)
          [] tag.val = 2 -> DeChunkState(tag.rest)
          [] OTHER       -> Fail)

\* Signature: the bytes that remain (it is the last field on the wire)
DeSignature(bs) == IF bs = <<>> THEN Fail ELSE Read(bs, <<>>)

----------------------------------------------------------------------------
(* Content hash and signing capability *)

\* CryptoHash::default()
DefaultHash == <<>>

\* The digest of a byte string: collision-free
HashBytes(bs) == <<255>> \o bs

\* CryptoHash::hash_borsh(&body)
hash_borsh(body) == HashBytes(SerChallengeBody(body))

\* signer.sign_bytes(data)
sign_bytes(signer, data) == <<signer.key>> \o data

\* verify(pubkey of account_id, data, signature)
Verify(account_id, data, signature) ==
    /\ RegisteredKey(account_id) # 0
    /\ signature = <<RegisteredKey(account_id)>> \o data

----------------------------------------------------------------------------
(* impl Challenge *)

\* Variant: init hashes the whole envelope
Challenge_init_envelope(c) == [c EXCEPT !.hash = HashBytes(SerChallenge(c))]

\* Variant: init leaves the hash as decoded
Challenge_init_skipped(c) == c

\* Challenge::init(&mut self)
Challenge_init(c) == [c EXCEPT !.hash = hash_borsh(c.body)]

\* Variant: the body bytes are signed, not the hash
Challenge_produce_signs_body(body, signer) ==
    [body |-> body, account_id |-> signer.validator_id,
     signature |-> sign_bytes(signer, SerChallengeBody(body)),
     hash |-> hash_borsh(body)]

\* Challenge::produce(body, signer)
Challenge_produce(body, signer) ==
    LET hash == hash_borsh(body)
        signature == sign_bytes(signer, hash)
    IN  [body |-> body, account_id |-> signer.validator_id,
         signature |-> signature, hash |-> hash]

\* The fields as read off the wire; the skipped `hash` is left at its default
DeChallengeFields(bs) ==
    AndThen(DeChallengeBody(bs), LAMBDA b :
    AndThen(DeVecU8(b.rest), LAMBDA a :
    AndThen(DeSignature(a.rest), LAMBDA s :
        Read([body |-> b.val, account_id |-> a.val,
              signature |-> s.val, hash |-> DefaultHash], s.rest))))

\* BorshDeserialize for Challenge, #[borsh(init=init)]
DeChallenge(bs) ==
    AndThen(DeChallengeFields(bs), LAMBDA f : Read(Challenge_init(f.val), f.rest))

\* derive(Clone)
Challenge_clone(c) ==
    [body |-> c.body, account_id |-> c.account_id,
     signature |-> c.signature, hash |-> c.hash]

----------------------------------------------------------------------------
(* impl PartialState *)

\* PartialState::default()
PartialState_default == [TrieValues |-> <<>>]

\* Variant: len counts the distinct values
PartialState_len_distinct(p) ==
    Cardinality({p.TrieValues[i] : i \in DOMAIN p.TrieValues})

\* PartialState::len(&self)
PartialState_len(p) == Len(p.TrieValues)

\* format!("{}", n) for a usize, as a sequence of characters
Digit(d) ==
    CASE d = 0 -> "0" [] d = 1 -> "1" [] d = 2 -> "2" [] d = 3 -> "3"
      [] d = 4 -> "4" [] d = 5 -> "5" [] d = 6 -> "6" [] d = 7 -> "7"
      [] d = 8 -> "8" [] d = 9 -> "9"

RECURSIVE Decimal(_)
Decimal(n) == IF n < 10 THEN <<Digit(n)>> ELSE Decimal(n \div 10) \o <<Digit(n % 10)>>

\* one blob as derive(Debug) prints it
RECURSIVE DumpBytes(_)
DumpBytes(bs) ==
    IF bs = <<>> THEN <<>> ELSE Decimal(Head(bs)) \o <<",">> \o DumpBytes(Tail(bs))

RECURSIVE DumpValues(_)
DumpValues(vs) ==
    IF vs = <<>> THEN <<>>
    ELSE <<"[">> \o DumpBytes(Head(vs)) \o <<"]">> \o DumpValues(Tail(vs))

\* Variant: derive(Debug), which prints every blob
PartialState_fmt_dump(p) == <<"T", "r", "i", "e", "V", "a", "l", "u", "e", "s", "(">>
    \o DumpValues(p.TrieValues) \o <<")">>

\* impl Debug for PartialState
PartialState_fmt(p) ==
    Decimal(Len(p.TrieValues))
        \o <<" ", "t", "r", "i", "e", " ", "v", "a", "l", "u", "e", "s">>

\* derive(PartialEq) on [u8]: same length, same bytes in the same places
RECURSIVE BytesEq(_, _)
BytesEq(a, b) ==
    IF Len(a) # Len(b) THEN FALSE
    ELSE IF Len(a) = 0 THEN TRUE
    ELSE Head(a) = Head(b) /\ BytesEq(Tail(a), Tail(b))

\* derive(PartialEq) on Vec<TrieValue>
RECURSIVE ValuesEq(_, _)
ValuesEq(a, b) ==
    IF Len(a) # Len(b) THEN FALSE
    ELSE IF Len(a) = 0 THEN TRUE
    ELSE BytesEq(Head(a), Head(b)) /\ ValuesEq(Tail(a), Tail(b))

\* Variant: the values are compared as sets
PartialState_eq_unordered(p, q) ==
    {p.TrieValues[i] : i \in DOMAIN p.TrieValues}
        = {q.TrieValues[i] : i \in DOMAIN q.TrieValues}

\* derive(PartialEq, Eq) for PartialState
PartialState_eq(p, q) == ValuesEq(p.TrieValues, q.TrieValues)

----------------------------------------------------------------------------
(* The adversary on the wire *)

\* byte b with the bit of place value `bit` flipped
FlipBit(b, bit) == IF (b \div bit) % 2 = 1 THEN b - bit ELSE b + bit

----------------------------------------------------------------------------
(* State machine of the Challenge envelope *)

Init ==
    /\ in_body = NoBody
    /\ in_signer = [validator_id |-> <<>>, key |-> 0]
    /\ produced = NoChallenge
    /\ chal = NoChallenge
    /\ src = NoChallenge
    /\ wire = <<>>
    /\ flipped = FALSE
    /\ intact = TRUE
    /\ err = FALSE
    /\ op = "init"
    /\ ps = PartialState_default
    /\ ps2 = PartialState_default
    /\ len_res = 0
    /\ fmt_res = <<>>
    /\ eq_res = TRUE

\* let c = Challenge::produce(body, signer)
Produce ==
    /\ produced = NoChallenge
    /\ \E body \in ChallengeBody, signer \in ValidatorSigner :
          /\ in_body' = body
          /\ in_signer' = signer
          /\ produced' = Challenge_produce(body, signer)
          /\ chal' = Challenge_produce(body, signer)
    /\ op' = "produce"
    /\ UNCHANGED <<src, wire, flipped, intact, err>>
    /\ UNCHANGED psVars

\* let bytes = borsh::to_vec(&c)
Serialize ==
    /\ chal # NoChallenge
    /\ wire' = SerChallenge(chal)
    /\ src' = chal
    /\ intact' = TRUE
    /\ op' = "serialize"
    /\ UNCHANGED <<in_body, in_signer, produced, chal, flipped, err>>
    /\ UNCHANGED psVars

\* one bit of the serialized ChallengeBody is flipped in flight
Tamper ==
    /\ wire # <<>>
    /\ ~flipped
    /\ \E i \in 1..Len(SerChallengeBody(src.body)), bit \in FlipBits :
          wire' = [wire EXCEPT ![i] = FlipBit(@, bit)]
    /\ flipped' = TRUE
    /\ intact' = FALSE
    /\ op' = "tamper"
    /\ UNCHANGED <<in_body, in_signer, produced, chal, src, err>>
    /\ UNCHANGED psVars

\* let c = Challenge::try_from_slice(&bytes)
Deserialize ==
    /\ wire # <<>>
    /\ \E r \in {DeChallenge(wire)} :
          IF r.ok THEN chal' = r.val /\ err' = FALSE
                  ELSE chal' = chal /\ err' = TRUE
    /\ op' = "deserialize"
    /\ UNCHANGED <<in_body, in_signer, produced, src, wire, flipped, intact>>
    /\ UNCHANGED psVars

\* let c = c.clone(): the holder goes on with the clone
Clone ==
    /\ chal # NoChallenge
    /\ chal' = Challenge_clone(chal)
    /\ op' = "clone"
    /\ UNCHANGED <<in_body, in_signer, produced, src, wire, flipped, intact, err>>
    /\ UNCHANGED psVars

Next == Produce \/ Serialize \/ Tamper \/ Deserialize \/ Clone

Spec == Init /\ [][Next]_vars

----------------------------------------------------------------------------
(* State machine of PartialState *)

\* the replay engine hands over two PartialState values
PSConstruct ==
    /\ op = "init"
    /\ \E p \in PartialState, q \in PartialState : ps' = p /\ ps2' = q
    /\ op' = "construct"
    /\ UNCHANGED <<len_res, fmt_res, eq_res>>
    /\ UNCHANGED chVars

\* ps = PartialState::default()
PSDefault ==
    /\ ps' = PartialState_default
    /\ op' = "default"
    /\ UNCHANGED <<ps2, len_res, fmt_res, eq_res>>
    /\ UNCHANGED chVars

\* ps.len()
PSLen ==
    /\ len_res' = PartialState_len(ps)
    /\ op' = "len"
    /\ UNCHANGED <<ps, ps2, fmt_res, eq_res>>
    /\ UNCHANGED chVars

\* format!("{:?}", ps)
PSFmt ==
    /\ fmt_res' = PartialState_fmt(ps)
    /\ op' = "fmt"
    /\ UNCHANGED <<ps, ps2, len_res, eq_res>>
    /\ UNCHANGED chVars

\* ps == ps2
PSEq ==
    /\ eq_res' = PartialState_eq(ps, ps2)
    /\ op' = "eq"
    /\ UNCHANGED <<ps, ps2, len_res, fmt_res>>
    /\ UNCHANGED chVars

NextPS == PSConstruct \/ PSDefault \/ PSLen \/ PSFmt \/ PSEq

SpecPS == Init /\ [][NextPS]_vars

----------------------------------------------------------------------------
(* Properties of the Challenge envelope, checked under Spec *)

\* The raw header byte strings a body carries
HeadersOf(b) ==
    CASE b.kind = "BlockDoubleSign" -> {b.left_block_header, b.right_block_header}
      [] b.kind = "ChunkProofs"     -> {b.block_header}
      [] b.kind = "ChunkState"      -> {b.prev_block_header, b.block_header}
      [] OTHER                      -> {}

\* The field names of each variant
ShapeOf(kind) ==
    CASE kind = "BlockDoubleSign" ->
            {"kind", "left_block_header", "right_block_header"}
      [] kind = "ChunkProofs" ->
            {"kind", "block_header", "merkle_proof", "chunk"}
      [] kind = "ChunkState" ->
            {"kind", "prev_block_header", "block_header", "prev_merkle_proof",
             "prev_chunk", "merkle_proof", "chunk_header", "partial_state"}
      [] OTHER -> {}

\* C1: Challenge::produce(body, signer) returns the body unchanged, the
\* content hash of the serialized body alone, the signer's signature over
\* the bytes of that hash (not over the body bytes, nor over the envelope),
\* and the signer's account id.
ProduceContract ==
    produced # NoChallenge =>
        /\ produced.body = in_body
        /\ produced.hash = HashBytes(SerChallengeBody(in_body))
        /\ produced.signature = sign_bytes(in_signer, produced.hash)
        /\ produced.signature # sign_bytes(in_signer, SerChallengeBody(in_body))
        /\ produced.signature # sign_bytes(in_signer, SerChallenge(produced))
        /\ produced.account_id = in_signer.validator_id
        /\ (op = "produce" => chal = produced)

ProduceWitness ==
    /\ op = "produce"
    /\ in_body.kind = "ChunkState"
    /\ Len(in_body.partial_state.TrieValues) = 2

\* C2: the wire form holds the body, the account id and the signature and
\* nothing else, so Challenges that differ only in `hash` serialize to the
\* same bytes; every decode recomputes `hash` from the decoded body, and
\* decoding a serialized produce(body, signer) gives the content hash of body.
WireOmitsHash ==
    /\ (src # NoChallenge /\ intact) =>
          /\ Len(wire) = Len(SerChallengeBody(src.body))
                            + Len(SerVecU8(src.account_id)) + Len(src.signature)
          /\ \A h \in {DefaultHash, HashBytes(<<>>), HashBytes(wire)} :
                SerChallenge([src EXCEPT !.hash = h]) = wire
    /\ (op = "deserialize" /\ ~err) => chal.hash = hash_borsh(chal.body)
    /\ (op = "deserialize" /\ intact /\ src = produced) =>
          ~err /\ chal.hash = HashBytes(SerChallengeBody(in_body))

WireOmitsHashWitness ==
    /\ op = "deserialize"
    /\ intact
    /\ ~err
    /\ src = produced
    /\ in_body.kind = "ChunkProofs"

HashOfBodyAlone ==
    /\ \A v \in {produced, chal, src} \ {NoChallenge} :
          /\ v.hash = HashBytes(SerChallengeBody(v.body))
          /\ v.hash # HashBytes(SerChallenge(v))
    /\ produced # NoChallenge =>
          \A s \in ValidatorSigner : Challenge_produce(in_body, s).hash = produced.hash

HashOfBodyAloneWitness ==
    /\ op = "clone"
    /\ chal # produced
    /\ chal.body # in_body

\* C5: under a collision-free content hash, produce gives two bodies the
\* same hash exactly when they are the same body.
CollisionFree ==
    op = "produce" =>
        \A b2 \in ChallengeBody :
            (b2 = in_body) <=> (Challenge_produce(b2, in_signer).hash = produced.hash)

CollisionFreeWitness ==
    /\ op = "produce"
    /\ in_body.kind = "BlockDoubleSign"
    /\ in_body.left_block_header = <<>>
    /\ in_body.right_block_header # <<>>

\* C6: a produced Challenge that arrives as it was serialized verifies: its
\* signature is good for the recomputed hash under its account id.  Once a
\* flipped bit makes the body decode to a different body, the recomputed hash
\* is not the hash that was signed, and the original signature does not
\* verify against it, under the original or the decoded account id.  In this
\* wire form every flipped bit that still decodes changes the body.
TamperRejected ==
    /\ (op = "deserialize" /\ intact /\ src = produced) =>
          ~err /\ Verify(chal.account_id, chal.hash, chal.signature)
    /\ (op = "deserialize" /\ ~intact /\ ~err) =>
          /\ chal.body # produced.body
          /\ ~Verify(chal.account_id, chal.hash, chal.signature)
    /\ (chal # NoChallenge /\ chal.body # produced.body) =>
          /\ flipped
          /\ chal.hash # produced.hash
          /\ ~Verify(produced.account_id, chal.hash, produced.signature)
          /\ ~Verify(chal.account_id, chal.hash, produced.signature)

TamperRejectedWitness ==
    /\ op = "deserialize"
    /\ ~intact
    /\ ~err
    /\ chal.body # produced.body
    /\ chal.account_id = produced.account_id
    /\ chal.signature = produced.signature

\* C8 as stated: no body that is passed to produce or obtained from decode
\* has an empty raw header.
HeadersNonEmpty ==
    /\ <<>> \notin HeadersOf(in_body)
    /\ chal # NoChallenge => <<>> \notin HeadersOf(chal.body)

\* C8 as amended: headers are carried as they are, empty ones too: produce
\* keeps the body it is given, an intact wire decodes to the headers that
\* were serialized, and the one structural guarantee is the variant shape.
HeadersCarriedAsGiven ==
    /\ op = "produce" => HeadersOf(chal.body) = HeadersOf(in_body)
    /\ (op = "deserialize" /\ intact) =>
          ~err /\ HeadersOf(chal.body) = HeadersOf(src.body)
    /\ chal # NoChallenge =>
          /\ chal.body.kind \in {"BlockDoubleSign", "ChunkProofs", "ChunkState"}
          /\ DOMAIN chal.body = ShapeOf(chal.body.kind)

HeadersCarriedAsGivenWitness ==
    /\ op = "deserialize"
    /\ intact
    /\ ~err
    /\ chal.body.kind = "BlockDoubleSign"
    /\ chal.body.left_block_header = <<>>
    /\ chal.body.right_block_header = <<>>

----------------------------------------------------------------------------
(* Properties of PartialState, checked under SpecPS *)

\* the number a sequence of decimal digits writes
RECURSIVE ParseDecimal(_)
ParseDecimal(cs) ==
    IF cs = <<>> THEN 0
    ELSE 10 * ParseDecimal(SubSeq(cs, 1, Len(cs) - 1))
            + (CHOOSE d \in 0..9 : Digit(d) = cs[Len(cs)])

Suffix == <<" ", "t", "r", "i", "e", " ", "v", "a", "l", "u", "e", "s">>

\* C7: PartialState::default() is the empty TrieValues with len() 0, and
\* the debug form of a PartialState is its count of blobs followed by
\* " trie values": it depends on the count alone, not on any blob's bytes.
DefaultAndDebug ==
    /\ op = "default" => ps.TrieValues = <<>> /\ PartialState_len(ps) = 0
    /\ op = "fmt" =>
          /\ Len(fmt_res) > Len(Suffix)
          /\ SubSeq(fmt_res, Len(fmt_res) - Len(Suffix) + 1, Len(fmt_res)) = Suffix
          /\ \A i \in 1..(Len(fmt_res) - Len(Suffix)) :
                \E d \in 0..9 : fmt_res[i] = Digit(d)
          /\ ParseDecimal(SubSeq(fmt_res, 1, Len(fmt_res) - Len(Suffix)))
                = Cardinality(DOMAIN ps.TrieValues)
          /\ \A q \in PartialState :
                Len(q.TrieValues) = Len(ps.TrieValues) => PartialState_fmt(q) = fmt_res

DefaultAndDebugWitness ==
    /\ op = "fmt"
    /\ Len(ps.TrieValues) = 2
    /\ ps.TrieValues[1] = <<0, 1>>

\* C9: two PartialState values are equal exactly when they hold the same
\* number of blobs and the blobs agree byte for byte, place by place; a
\* reordering, or a duplicate more or less, makes them unequal.
EqualityIsOrderedAndExact ==
    op = "eq" =>
        (eq_res <=>
            /\ Len(ps.TrieValues) = Len(ps2.TrieValues)
            /\ \A i \in DOMAIN ps.TrieValues :
                  /\ Len(ps.TrieValues[i]) = Len(ps2.TrieValues[i])
                  /\ \A j \in DOMAIN ps.TrieValues[i] :
                        ps.TrieValues[i][j] = ps2.TrieValues[i][j])

EqualityWitness ==
    /\ op = "eq"
    /\ ~eq_res
    /\ Len(ps.TrieValues) = 2
    /\ Len(ps2.TrieValues) = 2
    /\ ps.TrieValues[1] = ps2.TrieValues[2]
    /\ ps.TrieValues[2] = ps2.TrieValues[1]

\* C10: len() returns the number of blobs as carried, duplicates counted,
\* and leaves the PartialState as it was.
LenCountsEveryBlob ==
    [][op' = "len" =>
          /\ len_res' = Cardinality(DOMAIN ps.TrieValues)
          /\ ps' = ps]_vars

LenWitness ==
    /\ op = "len"
    /\ len_res = 2
    /\ ps.TrieValues[1] = ps.TrieValues[2]

====
